---- MODULE Spec2Model ----
(***************************************************************************)
(* Model of rozental_as_a_service/rozental.py.                             *)
(*                                                                         *)
(*   SpecFetch    fetch_typos_info: the cascade vocabulary -> cache ->     *)
(*                remote speller over the outer chunks of the word list,   *)
(*                called as main() calls it, with unique words.            *)
(*   SpecFetchAny the same function called with any list of words.         *)
(*   SpecReorder  reorder_vocabulary: the rewrite of the vocabulary file.  *)
(*   SpecExtract  extract_all_constants_from_path and its worker           *)
(*                extract_all_constants_from_files.                        *)
(*                                                                         *)
(* The three oracles, chunks/flat, get_content_from_file, extract_words    *)
(* and get_all_filepathes_recursively live in modules that rozental.py     *)
(* imports; they are modelled from the specification's contracts.          *)
(***************************************************************************)
EXTENDS Integers, Sequences, FiniteSets, TLC

VARIABLES
    \* ---- fetch_typos_info
    string_constants,    \* the argument: the list of candidate words
    vocabulary,          \* entries of the vocabulary file
    cache,               \* the persistent cache store: word -> entry
    speller_chunk_size,  \* backend_config['speller_chunk_size']
    fpc,                 \* position in fetch_typos_info
    chunk_num,           \* index of the outer chunk being processed
    backend_num,         \* index into backends of the next words_processor
    words_chunk,         \* the loop variable, reassigned to unknown
    typos_info,          \* the accumulator that is returned
    calls,               \* history: every oracle invocation, in order
    db_at_start,         \* history: the cache store when the run began
    \* ---- reorder_vocabulary
    vocabulary_file,     \* the characters of the file at vocabulary_path
    written,             \* history: the file before and after every run
    \* ---- extract_all_constants_from_path
    path,                \* the argument path
    path_is_dir,         \* os.path.isdir(path)
    tree,                \* the files under path when it is a directory
    exclude,             \* the argument exclude
    process_dots,        \* the argument process_dots
    processes_amount,    \* the argument processes_amount
    readable,            \* per file: how get_content_from_file can read it
    epc,                 \* position in extract_all_constants_from_path
    extension_num,       \* index of the extension the loop is at
    batches,             \* the chunks handed to Pool.map
    results,             \* per batch: what its worker returned, or Pending
    finished,            \* the batches in the order their workers finished
    all_string_constants,\* the accumulator string_constants of lines 52-69
    returned,            \* the list the function returns
    chunker_calls,       \* history: every call of chunks at line 66
    worker_log           \* history: every finished worker, in finishing order

fetchVars == <<string_constants, vocabulary, cache, speller_chunk_size, fpc,
               chunk_num, backend_num, words_chunk, typos_info, calls,
               db_at_start>>

reorderVars == <<vocabulary_file, written>>

extractVars == <<path, path_is_dir, tree, exclude, process_dots,
                 processes_amount, readable, epc, extension_num, batches,
                 results, finished, all_string_constants, returned,
                 chunker_calls, worker_log>>

vars == <<fetchVars, reorderVars, extractVars>>

\* ------------------------------------------------------------------ bounds

MaxWords == 3
MaxChunkSize == 2
MaxFileLen == 6
MaxRuns == 2
MaxProcesses == 3

\* ----------------------------------------------------------------- helpers

Min(a, b) == IF a < b THEN a ELSE b

Range(s) == {s[i] : i \in 1..Len(s)}

RECURSIVE flat(_)
\* list_utils.flat: the concatenation of a list of lists
flat(lists) ==
    IF lists = <<>> THEN <<>> ELSE Head(lists) \o flat(Tail(lists))

\* list_utils.chunks: contiguous sub-sequences of at most chunk_size items,
\* in order, the last possibly shorter (chunk_size > 0)
chunks(some_list, chunk_size) ==
    [k \in 1..((Len(some_list) + chunk_size - 1) \div chunk_size) |->
        SubSeq(some_list, (k - 1) * chunk_size + 1,
               Min(k * chunk_size, Len(some_list)))]

SelectWords(words, S) == SelectSeq(words, LAMBDA w : w \in S)

\* ------------------------------------------------- fetch_typos_info: data

\* candidate words: normalized, lowercase
Words == {"kot", "sobaka", "prevet"}

\* vocabulary file entries; the lookup is case-insensitive
VocabularyEntries == {"Kot", "sobaka", "prevet"}

Lower(entry) == IF entry = "Kot" THEN "kot" ELSE entry

\* suggestion lists of a TypoFinding
Options == {<<>>, <<"privet">>}

TypoInfo(word, options) == [original |-> word, possible_options |-> options]

Miss == [status |-> "miss", suggestions |-> <<>>]

CacheEntries ==
    {Miss, [status |-> "correct", suggestions |-> <<>>]}
    \cup {[status |-> "typo", suggestions |-> o] : o \in Options}

\* per-word verdict of the remote service in one response
Verdicts ==
    {[issue |-> "clean", s |-> <<>>], [issue |-> "omitted", s |-> <<>>]}
    \cup {[issue |-> "misspelled", s |-> o] : o \in Options}

Lists(S, n) == UNION {[1..k -> S] : k \in 0..n}

NoDuplicates(s) == \A i, j \in 1..Len(s) : s[i] = s[j] => i = j

\* lists without repetition: main() passes list(set(...))
UniqueLists(S, n) == {s \in Lists(S, n) : NoDuplicates(s)}

\* --------------------------------------------------------------- oracles

\* typos_backends.process_with_vocabulary
process_with_vocabulary(words, vocab) ==
    LET known == {w \in Words : \E e \in vocab : Lower(e) = w}
    IN  [sure_correct |-> SelectWords(words, known),
         sure_with_typo_info |-> <<>>,
         unknown |-> SelectWords(words, Words \ known),
         failed_words |-> <<>>]

\* typos_backends.process_with_db_with_cache
process_with_db_with_cache(words, store) ==
    LET correct == {w \in Words : store[w].status = "correct"}
        typo    == {w \in Words : store[w].status = "typo"}
        hits    == SelectWords(words, typo)
    IN  [sure_correct |-> SelectWords(words, correct),
         sure_with_typo_info |->
             [i \in 1..Len(hits) |-> TypoInfo(hits[i], store[hits[i]].suggestions)],
         unknown |-> SelectWords(words, Words \ (correct \cup typo)),
         failed_words |-> <<>>]

\* one response of the remote service for a sub-chunk: a failure, or a
\* verdict per word
Responses(sub_chunk) ==
    {[ok |-> FALSE, verdict |-> [w \in Range(sub_chunk) |-> [issue |-> "omitted", s |-> <<>>]]]}
    \cup {[ok |-> TRUE, verdict |-> v] : v \in [Range(sub_chunk) -> Verdicts]}

\* typos_backends.process_with_ya_speller, given the service's response to
\* each sub-chunk
process_with_ya_speller(words, store, size, responses) ==
    LET subs == chunks(words, size)
        n == Len(subs)
        answered(k) == IF responses[k].ok THEN Range(subs[k]) ELSE {}
        clean(k) == {w \in answered(k) : responses[k].verdict[w].issue = "clean"}
        bad(k) == {w \in answered(k) : responses[k].verdict[w].issue = "misspelled"}
        findings(k) ==
            LET b == SelectWords(subs[k], bad(k))
            IN  [i \in 1..Len(b) |-> TypoInfo(b[i], responses[k].verdict[b[i]].s)]
        verdictOf(w) ==
            LET k == CHOOSE k \in 1..n : w \in clean(k) \cup bad(k)
            IN  IF w \in clean(k)
                THEN [status |-> "correct", suggestions |-> <<>>]
                ELSE [status |-> "typo", suggestions |-> responses[k].verdict[w].s]
        resolved == UNION {clean(k) \cup bad(k) : k \in 1..n}
    IN  [sure_correct |-> flat([k \in 1..n |-> SelectWords(subs[k], clean(k))]),
         sure_with_typo_info |-> flat([k \in 1..n |-> findings(k)]),
         unknown |-> flat([k \in 1..n |->
                            SelectWords(subs[k], Range(subs[k]) \ (clean(k) \cup bad(k)))]),
         cache |-> [w \in Words |-> IF w \in resolved THEN verdictOf(w) ELSE store[w]],
         failed_words |-> flat([k \in 1..n |-> IF responses[k].ok THEN <<>> ELSE subs[k]])]

\* ------------------------------------------------------ fetch_typos_info

\* mutants of the cascade order
backendsCacheFirst == <<"cache", "vocabulary", "remote">>

backendsRemoteBeforeCache == <<"vocabulary", "remote", "cache">>

\* lines 90-94
backends == <<"vocabulary", "cache", "remote">>

\* mutants of the accumulation: = instead of +=, and prepending
AccumulateOverwrite(acc, sure_with_typo_info) == sure_with_typo_info

AccumulatePrepend(acc, sure_with_typo_info) == sure_with_typo_info \o acc

\* line 103: typos_info += sure_with_typo_info
Accumulate(acc, sure_with_typo_info) == acc \o sure_with_typo_info

\* mutant: the loop variable is not reassigned
NextWordsChunkKeep(current, unknown) == current

\* line 106: words_chunk = unknown
NextWordsChunk(current, unknown) == unknown

\* the variables of the other functions while one function runs
FetchIdle ==
    /\ string_constants = <<>>
    /\ vocabulary = {}
    /\ cache = [w \in Words |-> Miss]
    /\ speller_chunk_size = 1
    /\ fpc = "idle"
    /\ chunk_num = 0
    /\ backend_num = 0
    /\ words_chunk = <<>>
    /\ typos_info = <<>>
    /\ calls = <<>>
    /\ db_at_start = cache

ReorderIdle ==
    /\ vocabulary_file = <<>>
    /\ written = <<>>

ExtractIdle ==
    /\ path = <<>>
    /\ path_is_dir = FALSE
    /\ tree = <<>>
    /\ exclude = {}
    /\ process_dots = FALSE
    /\ processes_amount = 1
    /\ readable = <<>>
    /\ epc = "idle"
    /\ extension_num = 0
    /\ batches = <<>>
    /\ results = <<>>
    /\ finished = <<>>
    /\ all_string_constants = <<>>
    /\ returned = <<>>
    /\ chunker_calls = <<>>
    /\ worker_log = <<>>

InitFetchWith(inputs) ==
    /\ string_constants \in inputs
    \* only the entries of the words in the list are ever looked up: the
    \* vocabulary holds no other word and the store misses every other word
    /\ vocabulary \in SUBSET {e \in VocabularyEntries : Lower(e) \in Range(string_constants)}
    /\ cache \in [Words -> CacheEntries]
    /\ \A w \in Words \ Range(string_constants) : cache[w] = Miss
    /\ speller_chunk_size \in 1..MaxChunkSize
    /\ fpc = "chunk"
    /\ chunk_num = 0
    /\ backend_num = 0
    /\ words_chunk = <<>>
    /\ typos_info = <<>>
    /\ calls = <<>>
    /\ db_at_start = cache
    /\ ReorderIdle
    /\ ExtractIdle

\* the run as main() starts it: the words are unique
InitFetch == InitFetchWith(UniqueLists(Words, MaxWords))

\* the function called with any list of words
InitFetchAny == InitFetchWith(Lists(Words, MaxWords))

\* line 100: the outer loop takes the next chunk
TakeChunk ==
    /\ fpc = "chunk"
    /\ chunk_num < Len(chunks(string_constants, speller_chunk_size))
    /\ chunk_num' = chunk_num + 1
    /\ words_chunk' = chunks(string_constants, speller_chunk_size)[chunk_num + 1]
    /\ backend_num' = 1
    /\ fpc' = "backend"
    /\ UNCHANGED <<string_constants, vocabulary, cache, speller_chunk_size,
                   typos_info, calls, db_at_start, reorderVars, extractVars>>

\* lines 101-106: one iteration of the inner loop, the oracle returning r
\* and leaving the cache store as store
Process(r, store) ==
    /\ typos_info' = Accumulate(typos_info, r.sure_with_typo_info)
    /\ words_chunk' = NextWordsChunk(words_chunk, r.unknown)
    /\ cache' = store
    /\ calls' = Append(calls, [chunk |-> chunk_num,
                               backend |-> backends[backend_num],
                               input |-> words_chunk,
                               sure_correct |-> r.sure_correct,
                               sure_with_typo_info |-> r.sure_with_typo_info,
                               unknown |-> r.unknown,
                               failed_words |-> r.failed_words])
    /\ IF backend_num < Len(backends)
       THEN /\ backend_num' = backend_num + 1
            /\ fpc' = "backend"
       ELSE /\ backend_num' = 0
            /\ fpc' = "chunk"
    /\ UNCHANGED <<string_constants, vocabulary, speller_chunk_size, chunk_num,
                   db_at_start, reorderVars, extractVars>>

CallVocabulary ==
    /\ fpc = "backend"
    /\ backends[backend_num] = "vocabulary"
    /\ Process(process_with_vocabulary(words_chunk, vocabulary), cache)

CallCache ==
    /\ fpc = "backend"
    /\ backends[backend_num] = "cache"
    /\ Process(process_with_db_with_cache(words_chunk, cache), cache)

CallRemote ==
    /\ fpc = "backend"
    /\ backends[backend_num] = "remote"
    /\ LET subs == chunks(words_chunk, speller_chunk_size)
       IN  \E responses \in
               {f \in [1..Len(subs) -> UNION {Responses(subs[k]) : k \in 1..Len(subs)}] :
                    \A k \in 1..Len(subs) : f[k] \in Responses(subs[k])} :
               LET r == process_with_ya_speller(words_chunk, cache,
                                                speller_chunk_size, responses)
               IN  Process(r, r.cache)

\* line 108
Return ==
    /\ fpc = "chunk"
    /\ chunk_num = Len(chunks(string_constants, speller_chunk_size))
    /\ fpc' = "done"
    /\ UNCHANGED <<string_constants, vocabulary, cache, speller_chunk_size,
                   chunk_num, backend_num, words_chunk, typos_info, calls,
                   db_at_start, reorderVars, extractVars>>

NextFetch == TakeChunk \/ CallVocabulary \/ CallCache \/ CallRemote \/ Return

SpecFetch == InitFetch /\ [][NextFetch]_vars

SpecFetchAny == InitFetchAny /\ [][NextFetch]_vars

\* ------------------------------------------- fetch_typos_info: properties

InVocabulary(w) == \E e \in vocabulary : Lower(e) = w

Originals(findings) == {findings[i].original : i \in 1..Len(findings)}

Resolved(call) == Range(call.sure_correct) \cup Originals(call.sure_with_typo_info)

NumChunks == Len(chunks(string_constants, speller_chunk_size))

\* C1: a word that is present in the vocabulary is never the original of a
\* TypoFinding accumulated by fetch_typos_info, whatever the cache holds and
\* whatever the remote service answers.
C1_VocabularyWordNeverTypo ==
    \A i \in 1..Len(typos_info) : ~InVocabulary(typos_info[i].original)

\* the run has ended on a list holding a vocabulary word whose cache entry
\* says typo, and has reported some other word
C1_Witness ==
    /\ fpc = "done"
    /\ typos_info # <<>>
    /\ \E w \in Range(string_constants) :
           InVocabulary(w) /\ db_at_start[w].status = "typo"

\* C2: within a run a word is resolved by at most one oracle invocation; a
\* word an oracle has resolved is in the input of no later invocation, and
\* every oracle but the first of a chunk receives exactly the unknown output
\* of the oracle before it.
C2_ResolvedAtMostOnce ==
    /\ \A i, j \in 1..Len(calls) :
           i < j => Resolved(calls[i]) \cap Range(calls[j].input) = {}
    /\ \A i, j \in 1..Len(calls) :
           i # j => Resolved(calls[i]) \cap Resolved(calls[j]) = {}
    /\ \A j \in 2..Len(calls) :
           calls[j].chunk = calls[j - 1].chunk
               => calls[j].input = calls[j - 1].unknown

\* the run has ended; the vocabulary, the cache and the remote oracle have
\* each resolved a word
C2_Witness ==
    /\ fpc = "done"
    /\ \A b \in Range(backends) :
           \E j \in 1..Len(calls) : calls[j].backend = b /\ Resolved(calls[j]) # {}

\* C3: at the end of the run a word outside the vocabulary whose cache entry
\* said typo is reported with the cached suggestion list, and in no state
\* has the remote oracle been invoked with such a word.
C3_CachedTypoSkipsRemote ==
    \A w \in Range(string_constants) :
        (~InVocabulary(w) /\ db_at_start[w].status = "typo") =>
            /\ \A j \in 1..Len(calls) :
                   calls[j].backend = "remote" => w \notin Range(calls[j].input)
            /\ fpc = "done" =>
                   \E i \in 1..Len(typos_info) :
                       typos_info[i] = TypoInfo(w, db_at_start[w].suggestions)
            /\ \A i \in 1..Len(typos_info) :
                   typos_info[i].original = w =>
                       typos_info[i].possible_options = db_at_start[w].suggestions

\* the run has ended; a cached typo with suggestions was reported and the
\* remote oracle was invoked with another word of the same chunk
C3_Witness ==
    /\ fpc = "done"
    /\ \E w \in Range(string_constants) :
           /\ ~InVocabulary(w)
           /\ db_at_start[w].status = "typo"
           /\ db_at_start[w].suggestions # <<>>
           /\ \E j \in 1..Len(calls) :
                  /\ calls[j].backend = "remote"
                  /\ calls[j].input # <<>>
                  /\ w \in Range(chunks(string_constants, speller_chunk_size)[calls[j].chunk])

\* C4: a failed remote call does not stop the run: the words of the failed
\* sub-chunk come back as unknown and are not in the typo list, the run can
\* always take its next step, and when it has ended every outer chunk has
\* gone through the three oracles and every finding of every oracle is in
\* the returned list.
C4_RemoteFailureNotFatal ==
    /\ \A j \in 1..Len(calls) :
           /\ Range(calls[j].failed_words) \subseteq Range(calls[j].unknown)
           /\ Range(calls[j].failed_words) \cap Originals(typos_info) = {}
    /\ fpc # "done" => ENABLED NextFetch
    /\ fpc = "done" =>
           /\ \A c \in 1..NumChunks : \A b \in Range(backends) :
                  \E j \in 1..Len(calls) : calls[j].chunk = c /\ calls[j].backend = b
           /\ \A j \in 1..Len(calls) :
                  Originals(calls[j].sure_with_typo_info) \subseteq Originals(typos_info)

\* the run has ended; the remote call failed for the first chunk, and both
\* the cache oracle of that chunk and the remote oracle of a later chunk
\* found typos
C4_Witness ==
    /\ fpc = "done"
    /\ \E i, j, k \in 1..Len(calls) :
           /\ calls[j].failed_words # <<>>
           /\ calls[i].chunk = calls[j].chunk
           /\ calls[i].sure_with_typo_info # <<>>
           /\ calls[k].chunk > calls[j].chunk
           /\ calls[k].backend = "remote"
           /\ calls[k].sure_with_typo_info # <<>>

\* C5: the returned list is the concatenation of the findings of the oracle
\* invocations, which run chunk by chunk in input order and within a chunk
\* in the order vocabulary, cache, remote; a word an oracle left unknown is
\* not among that oracle's findings.
C5_ConcatenationInOrder ==
    /\ typos_info = flat([j \in 1..Len(calls) |-> calls[j].sure_with_typo_info])
    /\ \A j \in 1..Len(calls) :
           /\ calls[j].chunk = ((j - 1) \div 3) + 1
           /\ calls[j].backend = <<"vocabulary", "cache", "remote">>[((j - 1) % 3) + 1]
           /\ calls[j].backend = "vocabulary" =>
                  calls[j].input = chunks(string_constants, speller_chunk_size)[calls[j].chunk]
           /\ Range(calls[j].unknown) \cap Originals(calls[j].sure_with_typo_info) = {}
           /\ Originals(calls[j].sure_with_typo_info) \subseteq Range(calls[j].input)
    /\ fpc = "done" => Len(calls) = 3 * NumChunks

\* the run has ended; two chunks each reported a typo, one from the cache
\* and one from the remote oracle, and a word stayed unknown
C5_Witness ==
    /\ fpc = "done"
    /\ Len(typos_info) >= 2
    /\ \E i, j \in 1..Len(calls) :
           /\ calls[i].chunk # calls[j].chunk
           /\ calls[i].backend = "cache" /\ calls[i].sure_with_typo_info # <<>>
           /\ calls[j].backend = "remote" /\ calls[j].sure_with_typo_info # <<>>
    /\ \E j \in 1..Len(calls) : calls[j].backend = "remote" /\ calls[j].unknown # <<>>

\* ------------------------------------------------------ reorder_vocabulary

\* Characters are code points, so that sorted() compares as Python does.
NL == 10

HASH == 35

CR == 13

\* a tab, a line feed, a carriage return, '#', 'B', 'a'
Alphabet == {9, NL, CR, HASH, 66, 97}

\* the characters str.strip() removes: those str.isspace() holds of
IsSpace(c) ==
    c \in {9, 10, 11, 12, 13, 28, 29, 30, 31, 32, 133, 160, 5760, 8232, 8233,
           8239, 8287, 12288} \cup (8192..8202)

RECURSIVE universal_newlines(_)
\* open(vocabulary_path, 'r'): text mode reads '\r\n' and '\r' as '\n'
universal_newlines(text) ==
    IF text = <<>> THEN <<>>
    ELSE IF Head(text) = CR
         THEN IF Len(text) >= 2 /\ text[2] = NL
              THEN <<NL>> \o universal_newlines(SubSeq(text, 3, Len(text)))
              ELSE <<NL>> \o universal_newlines(Tail(text))
         ELSE <<Head(text)>> \o universal_newlines(Tail(text))

RECURSIVE splitlines_keepends(_)
\* the lines of a decoded text with their line feed; the last line has none
\* when the text does not end with one
splitlines_keepends(text) ==
    IF text = <<>> THEN <<>>
    ELSE IF \E i \in 1..Len(text) : text[i] = NL
         THEN LET i == CHOOSE i \in 1..Len(text) :
                           text[i] = NL /\ \A j \in 1..(i - 1) : text[j] # NL
              IN  <<SubSeq(text, 1, i)>>
                  \o splitlines_keepends(SubSeq(text, i + 1, Len(text)))
         ELSE <<text>>

\* lines 112-113: open in text mode and file_handler.readlines()
readlines(text) == splitlines_keepends(universal_newlines(text))

\* str.strip(): without the leading and the trailing whitespace
strip(line) ==
    IF \A i \in 1..Len(line) : IsSpace(line[i]) THEN <<>>
    ELSE LET first == CHOOSE i \in 1..Len(line) :
                          ~IsSpace(line[i]) /\ \A j \in 1..(i - 1) : IsSpace(line[j])
             last  == CHOOSE i \in 1..Len(line) :
                          ~IsSpace(line[i]) /\ \A j \in (i + 1)..Len(line) : IsSpace(line[j])
         IN  SubSeq(line, first, last)

\* str.startswith('#')
startswith_hash(l) == Len(l) > 0 /\ l[1] = HASH

\* str < str: by code point, a proper prefix first
LexLess(a, b) ==
    \E i \in 1..(Len(b)) :
        /\ \A j \in 1..(i - 1) : j <= Len(a) /\ a[j] = b[j]
        /\ \/ i = Len(a) + 1
           \/ i <= Len(a) /\ a[i] < b[i]

RECURSIVE sorted(_)
\* sorted(): ascending, by insertion
sorted(strings) ==
    IF strings = <<>> THEN <<>>
    ELSE LET rest == sorted(Tail(strings))
             x == Head(strings)
             before == SelectSeq(rest, LAMBDA y : LexLess(y, x))
             after == SelectSeq(rest, LAMBDA y : ~LexLess(y, x))
         IN  before \o <<x>> \o after

\* mutant: the header test reads the raw line
StartsSectionRaw(line, processed_line) == startswith_hash(line)

\* line 120: processed_line.startswith('#')
StartsSection(line, processed_line) == startswith_hash(processed_line)

RECURSIVE SplitSections(_, _, _)
\* lines 116-125: the loop over raw_lines, with sections and current_section
SplitSections(raw_lines, sections, current_section) ==
    IF raw_lines = <<>>
    THEN IF current_section # <<>> THEN Append(sections, current_section) ELSE sections
    ELSE LET line == Head(raw_lines)
             processed_line == strip(line)
         IN  IF processed_line = <<>>
             THEN SplitSections(Tail(raw_lines), sections, current_section)
             ELSE IF StartsSection(line, processed_line) /\ current_section # <<>>
                  THEN SplitSections(Tail(raw_lines), Append(sections, current_section),
                                     <<processed_line>>)
                  ELSE SplitSections(Tail(raw_lines), sections,
                                     Append(current_section, processed_line))

WithNL(lines) == [i \in 1..Len(lines) |-> Append(lines[i], NL)]

\* lines 127-132: one entry of sorted_sections
SortedSection(section, section_num, n_sections) ==
    WithNL(SelectSeq(section, startswith_hash))
    \o sorted(WithNL(SelectSeq(section, LAMBDA l : ~startswith_hash(l))))
    \o (IF section_num < n_sections THEN <<<<NL>>>> ELSE <<>>)

\* lines 111-135: the content written for the content read
reorder_vocabulary(text) ==
    LET sections == SplitSections(readlines(text), <<>>, <<>>)
        sorted_sections == [k \in 1..Len(sections) |->
                               SortedSection(sections[k], k, Len(sections))]
    IN  flat(flat(sorted_sections))

InitReorder ==
    /\ vocabulary_file \in Lists(Alphabet, MaxFileLen)
    /\ written = <<vocabulary_file>>
    /\ FetchIdle
    /\ ExtractIdle

\* one run of reorder_vocabulary on the file
Reorder ==
    /\ Len(written) <= MaxRuns
    /\ vocabulary_file' = reorder_vocabulary(vocabulary_file)
    /\ written' = Append(written, vocabulary_file')
    /\ UNCHANGED <<fetchVars, extractVars>>

NextReorder == Reorder

SpecReorder == InitReorder /\ [][NextReorder]_vars

\* ----------------------------------------- reorder_vocabulary: properties

\* the lines of a text without their line feed
LineContents(text) ==
    LET ls == readlines(text)
    IN  [i \in 1..Len(ls) |->
            IF ls[i][Len(ls[i])] = NL THEN SubSeq(ls[i], 1, Len(ls[i]) - 1) ELSE ls[i]]

\* the stripped, non-blank lines of the input
InputLines(text) ==
    LET ls == readlines(text)
    IN  SelectSeq([i \in 1..Len(ls) |-> strip(ls[i])], LAMBDA l : l # <<>>)

\* lines[i..j] for every maximal run i..j that begins at a start and holds
\* only lines that are not skipped
Runs(lines, IsStart(_), IsSkipped(_)) ==
    LET n == Len(lines)
        starts == {i \in 1..n : ~IsSkipped(i) /\ IsStart(i)}
        end(i) == CHOOSE j \in i..n :
                      /\ \A m \in (i + 1)..j : ~IsSkipped(m) /\ ~IsStart(m)
                      /\ j = n \/ IsSkipped(j + 1) \/ IsStart(j + 1)
        kth(k) == CHOOSE i \in starts : Cardinality({m \in starts : m < i}) = k - 1
    IN  [k \in 1..Cardinality(starts) |-> SubSeq(lines, kth(k), end(kth(k)))]

\* the sections of the input: split at the lines starting with '#'
InputSections(text) ==
    LET ls == InputLines(text)
    IN  Runs(ls, LAMBDA i : i = 1 \/ startswith_hash(ls[i]), LAMBDA i : FALSE)

\* the sections of the output: the runs of lines between blank lines
OutputSections(text) ==
    LET ls == LineContents(text)
    IN  Runs(ls, LAMBDA i : i = 1 \/ ls[i - 1] = <<>>, LAMBDA i : ls[i] = <<>>)

Entries(section) == SelectSeq(section, LAMBDA l : ~startswith_hash(l))

Count(x, seq) == Cardinality({i \in 1..Len(seq) : seq[i] = x})

SameItems(a, b) == \A x \in Range(a) \cup Range(b) : Count(x, a) = Count(x, b)

Ascending(strings) ==
    \A i, j \in 1..Len(strings) : i < j => ~LexLess(strings[j], strings[i])

\* every line ends with a line feed; a blank line is never first, never last
\* and never next to another; the sections between the blank lines are the
\* sections of the input, header first, then that section's entries
Layout(input, output) ==
    LET raw == readlines(output)
        out == LineContents(output)
        ins == InputSections(input)
        outs == OutputSections(output)
    IN  /\ \A i \in 1..Len(raw) : raw[i][Len(raw[i])] = NL
        /\ \A i \in 1..Len(out) :
               out[i] = <<>> => i > 1 /\ i < Len(out) /\ out[i + 1] # <<>>
        /\ \A i \in 1..Len(out) : out[i] # <<>> => strip(out[i]) = out[i]
        /\ Len(outs) = Len(ins)
        /\ \A k \in 1..Len(ins) :
               /\ startswith_hash(ins[k][1]) =>
                      outs[k][1] = ins[k][1] /\ Tail(outs[k]) = Entries(outs[k])
               /\ ~startswith_hash(ins[k][1]) => outs[k] = Entries(outs[k])
               /\ SameItems(Entries(ins[k]), Entries(outs[k]))

EntriesAscending(output) ==
    LET outs == OutputSections(output)
    IN  \A k \in 1..Len(outs) : Ascending(Entries(outs[k]))

\* as written in the file: each entry with its line feed
EntryLinesAscending(output) ==
    LET outs == OutputSections(output)
    IN  \A k \in 1..Len(outs) : Ascending(WithNL(Entries(outs[k])))

\* C6: a second run of reorder_vocabulary, and every later one, leaves the
\* file exactly as the first run wrote it.
C6_ReorderIdempotent ==
    \A i \in 3..Len(written) : written[i] = written[2]

\* two runs have been made; the first changed the file, sorted a section
\* of at least two different entries and wrote a blank line between
\* sections
C6_Witness ==
    /\ Len(written) = 3
    /\ written[2] # written[1]
    /\ Len(OutputSections(written[2])) >= 2
    /\ \E k \in 1..Len(InputSections(written[1])) :
           LET e == Entries(InputSections(written[1])[k])
           IN  Len(e) >= 2 /\ ~Ascending(e)

\* C7: the file written by reorder_vocabulary holds the sections of the
\* input, split at the lines starting with '#': header first, then that
\* section's entries in ascending case-sensitive order, one blank line
\* between sections, none after the last, and no other blank line.
C7_SectionsSortedAndSeparated ==
    Len(written) >= 2 =>
        /\ Layout(written[1], written[2])
        /\ EntriesAscending(written[2])

\* all of C7 but the order of the entries
C7_LayoutHolds ==
    Len(written) >= 2 => Layout(written[1], written[2])

\* the order the code does produce: ascending with the line feed compared
C7_EntryLinesAscending ==
    Len(written) >= 2 => EntryLinesAscending(written[2])

\* ------------------------------------- extract_all_constants_from_path

\* File paths and extensions are strings of characters.
PathA == <<"a", ".", "p", "y">>

PathB == <<"b", ".", "p", "y">>

PathC == <<"d", "/", ".", "c", ".", "p", "y">>

PathE == <<".", "e", ".", "p", "y">>

PathF == <<"f", ".", "m", "d">>

\* the files there may be, in the order a directory walk lists them
AllPaths == <<PathA, PathB, PathC, PathE, PathF>>

DirPath == <<"s", "r", "c">>

\* lines 39-50: extension_to_extractor_mapping, in insertion order
extension_to_extractor_mapping ==
    << [extension |-> <<"p", "y">>, extractors |-> <<"extract_from_python_src">>],
       [extension |-> <<"p", "y", "i">>, extractors |-> <<"extract_from_python_src">>],
       [extension |-> <<"m", "d">>, extractors |-> <<"extract_from_markdown">>],
       [extension |-> <<"h", "t", "m", "l">>, extractors |-> <<"extract_from_html">>],
       [extension |-> <<"j", "s">>, extractors |-> <<"extract_from_js">>],
       [extension |-> <<"t", "s">>, extractors |-> <<"extract_from_js">>],
       [extension |-> <<"t", "s", "x">>, extractors |-> <<"extract_from_js">>],
       [extension |-> <<"p", "o">>, extractors |-> <<"extract_from_po">>] >>

\* str.endswith
endswith(str, suffix) ==
    /\ Len(suffix) <= Len(str)
    /\ SubSeq(str, Len(str) - Len(suffix) + 1, Len(str)) = suffix

\* str.startswith
startswith(str, prefix) ==
    Len(prefix) <= Len(str) /\ SubSeq(str, 1, Len(prefix)) = prefix

\* sub in str
contains(str, sub) ==
    \E i \in 1..(Len(str) - Len(sub) + 1) : SubSeq(str, i, i + Len(sub) - 1) = sub

\* files_utils.get_all_filepathes_recursively: the files under the directory
\* with the extension, without the excluded ones
get_all_filepathes_recursively(files, excluded, extension) ==
    SelectSeq(files, LAMBDA f : endswith(f, <<".">> \o extension) /\ f \notin excluded)

\* lines 55-60: all_files for one extension
AllFiles(extension) ==
    LET found == IF path_is_dir
                 THEN get_all_filepathes_recursively(tree, exclude, extension)
                 ELSE IF endswith(path, extension) THEN <<path>> ELSE <<>>
    IN  IF ~process_dots
        THEN SelectSeq(found, LAMBDA f : ~contains(f, <<"/", ".">>) /\ ~startswith(f, <<".">>))
        ELSE found

\* mutant: integer division instead of math.ceil
ChunkSizeFloor(n, p) == n \div p

\* line 63: math.ceil(len(all_files) / processes_amount)
ChunkSize(n, p) == (n + p - 1) \div p

\* --------------------------------------- extract_all_constants_from_files

\* what an extractor finds in a file: raw strings
RawStrings(extractor, filepath) ==
    CASE filepath = PathA -> << <<"K", "o", "t", " ", "o", "m">>, <<"k", "o", "t">> >>
      [] filepath = PathB -> << <<"p", "e", "s", " ", "k", "o", "t">> >>
      [] filepath = PathC -> << <<"P", "e", "s">> >>
      [] filepath = PathE -> << <<"o", "m">> >>
      [] OTHER -> << <<"k", "i", "t">>, <<"k", "i", "t">> >>

\* str.lower() on the letters in use
LowerChar(c) == CASE c = "K" -> "k" [] c = "P" -> "p" [] OTHER -> c

MinWordLength == 3

RECURSIVE Tokens(_, _)
\* the maximal runs of letters of a raw string; current is the run being read
Tokens(raw, current) ==
    IF raw = <<>> THEN (IF current = <<>> THEN {} ELSE {current})
    ELSE IF Head(raw) = " "
         THEN (IF current = <<>> THEN {} ELSE {current}) \cup Tokens(Tail(raw), <<>>)
         ELSE Tokens(Tail(raw), Append(current, Head(raw)))

\* extractors_utils.extract_words: the tokens of the raw strings, lowercased,
\* of at least the minimal length, each once
extract_words(raw_constants) ==
    {[i \in 1..Len(t) |-> LowerChar(t[i])] :
        t \in {u \in UNION {Tokens(r, <<>>) : r \in raw_constants} :
                   Len(u) >= MinWordLength}}

\* files_utils.get_content_from_file: whether it returns content
CanRead(filepath, guess_encoding) ==
    \/ readable[filepath] = "plain"
    \/ readable[filepath] = "guess" /\ guess_encoding

\* mutant: the unreadable file is skipped and the loop goes on
SkipUnreadable(after_skip, reads) == after_skip

\* lines 80-81: return []
ReturnOnUnreadable(after_skip, reads) ==
    [strings |-> {}, reads |-> reads, gave_up |-> TRUE]

RECURSIVE FilesLoop(_, _, _, _, _)
\* lines 73-84: the loops over files_pathes and extractors, at file f and
\* extractor e, with string_constants collected so far and the reads made
FilesLoop(files_pathes, extractors, f, e, state) ==
    IF f > Len(files_pathes)
    THEN [strings |-> extract_words(state.string_constants),
          reads |-> state.reads, gave_up |-> FALSE]
    ELSE IF e > Len(extractors)
    THEN FilesLoop(files_pathes, extractors, f + 1, 1, state)
    ELSE LET filepath == files_pathes[f]
             first == [file |-> filepath, guess_encoding |-> FALSE]
             second == [file |-> filepath, guess_encoding |-> TRUE]
         IN  IF CanRead(filepath, FALSE)
             THEN FilesLoop(files_pathes, extractors, f, e + 1,
                      [string_constants |-> state.string_constants
                           \cup Range(RawStrings(extractors[e], filepath)),
                       reads |-> Append(state.reads, first)])
             ELSE IF CanRead(filepath, TRUE)
             THEN FilesLoop(files_pathes, extractors, f, e + 1,
                      [string_constants |-> state.string_constants
                           \cup Range(RawStrings(extractors[e], filepath)),
                       reads |-> state.reads \o <<first, second>>])
             ELSE ReturnOnUnreadable(
                      FilesLoop(files_pathes, extractors, f + 1, 1,
                          [string_constants |-> state.string_constants,
                           reads |-> state.reads \o <<first, second>>]),
                      state.reads \o <<first, second>>)

\* lines 72-84
extract_all_constants_from_files(files_pathes, extractors) ==
    FilesLoop(files_pathes, extractors, 1, 1,
              [string_constants |-> {}, reads |-> <<>>])

\* the lists a set may be turned into by list(set(...))
ListsOf(S) ==
    {l \in [1..Cardinality(S) -> S] : \A i, j \in 1..Cardinality(S) : l[i] = l[j] => i = j}

\* -------------------------------- extract_all_constants_from_path: steps

Pending == [done |-> FALSE, strings |-> <<>>]

Subsequences(seq) ==
    {SelectSeq(seq, LAMBDA x : x \in S) : S \in SUBSET Range(seq)}

InitExtract ==
    /\ path_is_dir \in BOOLEAN
    /\ IF path_is_dir
       THEN path = DirPath /\ tree \in Subsequences(AllPaths)
       ELSE path \in Range(AllPaths) /\ tree = <<>>
    /\ exclude \in {{}, {PathB}}
    /\ process_dots \in BOOLEAN
    /\ processes_amount \in 1..MaxProcesses
    /\ readable \in [Range(AllPaths) -> {"plain", "guess", "none"}]
    /\ \A f \in Range(AllPaths) :
           f \notin Range(tree) \cup {path} => readable[f] = "plain"
    /\ epc = "loop"
    /\ extension_num = 1
    /\ batches = <<>>
    /\ results = <<>>
    /\ finished = <<>>
    /\ all_string_constants = <<>>
    /\ returned = <<>>
    /\ chunker_calls = <<>>
    /\ worker_log = <<>>
    /\ FetchIdle
    /\ ReorderIdle

unchangedInputs ==
    UNCHANGED <<path, path_is_dir, tree, exclude, process_dots,
                processes_amount, readable, fetchVars, reorderVars>>

CurrentExtension == extension_to_extractor_mapping[extension_num]

\* lines 54-62: an extension without files is skipped
SkipExtension ==
    /\ epc = "loop"
    /\ extension_num <= Len(extension_to_extractor_mapping)
    /\ AllFiles(CurrentExtension.extension) = <<>>
    /\ extension_num' = extension_num + 1
    /\ UNCHANGED <<epc, batches, results, finished, all_string_constants,
                   returned, chunker_calls, worker_log>>
    /\ unchangedInputs

\* lines 54-66: the files of the extension are chunked and handed to the pool
StartMap ==
    /\ epc = "loop"
    /\ extension_num <= Len(extension_to_extractor_mapping)
    /\ LET all_files == AllFiles(CurrentExtension.extension)
           chunk_size == ChunkSize(Len(all_files), processes_amount)
       IN  /\ all_files # <<>>
           /\ IF chunk_size <= 0
              THEN \* chunks raises on a chunk size that is not positive
                   /\ epc' = "raised"
                   /\ UNCHANGED <<batches, results>>
              ELSE /\ epc' = "map"
                   /\ batches' = chunks(all_files, chunk_size)
                   /\ results' = [i \in 1..Len(batches') |-> Pending]
           /\ chunker_calls' = Append(chunker_calls,
                  [all_files |-> all_files, chunk_size |-> chunk_size,
                   batches |-> IF chunk_size <= 0 THEN <<>>
                               ELSE chunks(all_files, chunk_size)])
    /\ finished' = <<>>
    /\ UNCHANGED <<extension_num, all_string_constants, returned, worker_log>>
    /\ unchangedInputs

\* a worker process returns from extract_all_constants_from_files
WorkerFinish(i) ==
    /\ epc = "map"
    /\ ~results[i].done
    /\ LET r == extract_all_constants_from_files(batches[i], CurrentExtension.extractors)
       IN  /\ \E l \in ListsOf(r.strings) :
                  results' = [results EXCEPT ![i] = [done |-> TRUE, strings |-> l]]
           /\ worker_log' = Append(worker_log,
                  [files_pathes |-> batches[i], extension_num |-> extension_num,
                   batch |-> i, strings |-> r.strings, reads |-> r.reads])
    /\ finished' = Append(finished, i)
    /\ UNCHANGED <<epc, extension_num, batches, all_string_constants, returned,
                   chunker_calls>>
    /\ unchangedInputs

\* mutant: the workers write to one shared list and the last one wins
GatherLastFinished(done, order) == <<done[order[Len(order)]].strings>>

\* lines 64-67: Pool.map returns the results in the order of the batches
Gather(done, order) == [i \in 1..Len(done) |-> done[i].strings]

\* lines 64-68: Pool.map returns and the strings are appended
MapReturn ==
    /\ epc = "map"
    /\ \A i \in 1..Len(results) : results[i].done
    /\ all_string_constants' = all_string_constants \o flat(Gather(results, finished))
    /\ extension_num' = extension_num + 1
    /\ epc' = "loop"
    /\ batches' = <<>>
    /\ results' = <<>>
    /\ finished' = <<>>
    /\ UNCHANGED <<returned, chunker_calls, worker_log>>
    /\ unchangedInputs

\* line 69
ReturnConstants ==
    /\ epc = "loop"
    /\ extension_num > Len(extension_to_extractor_mapping)
    /\ returned' \in ListsOf(Range(all_string_constants))
    /\ epc' = "done"
    /\ UNCHANGED <<extension_num, batches, results, finished,
                   all_string_constants, chunker_calls, worker_log>>
    /\ unchangedInputs

NextExtract ==
    \/ SkipExtension
    \/ StartMap
    \/ \E i \in 1..Len(results) : WorkerFinish(i)
    \/ MapReturn
    \/ ReturnConstants

SpecExtract == InitExtract /\ [][NextExtract]_vars

\* ------------------------- extract_all_constants_from_path: properties

\* the least k with k * p >= n
CeilOf(n, p) == CHOOSE k \in 0..n : k * p >= n /\ (k - 1) * p < n

\* the union of what the workers return for the batches of every
\* extension, read off the arguments and the file system alone
ExpectedConstants ==
    UNION {LET m == extension_to_extractor_mapping[e]
               files == AllFiles(m.extension)
               size == CeilOf(Len(files), processes_amount)
           IN  IF files = <<>> THEN {}
               ELSE UNION {extract_all_constants_from_files(
                               SubSeq(files, b * size + 1, Min((b + 1) * size, Len(files))),
                               m.extractors).strings
                           : b \in 0..((Len(files) - 1) \div size)}
           : e \in 1..Len(extension_to_extractor_mapping)}

\* C8: whatever the order in which the workers finish, a finished batch
\* keeps the result of its own worker until Pool.map returns, and the
\* strings returned are, each once, the union of the per-batch results,
\* which the arguments and the file system alone determine.
C8_CompletionOrderIrrelevant ==
    /\ \A i \in 1..Len(results) :
           results[i].done =>
               Range(results[i].strings) =
                   extract_all_constants_from_files(
                       batches[i], CurrentExtension.extractors).strings
    /\ epc = "done" =>
           /\ Range(returned) = ExpectedConstants
           /\ NoDuplicates(returned)

\* the function has returned strings; for one extension a later batch
\* finished before an earlier one, and the two returned different strings
C8_Witness ==
    /\ epc = "done"
    /\ returned # <<>>
    /\ \E i, j \in 1..Len(worker_log) :
           /\ i < j
           /\ worker_log[i].extension_num = worker_log[j].extension_num
           /\ worker_log[i].batch > worker_log[j].batch
           /\ worker_log[i].strings # worker_log[j].strings
           /\ worker_log[i].strings # {}
           /\ worker_log[j].strings # {}

\* C9: a worker whose batch holds a file that neither read attempt can read
\* returns no string at all, and has read nothing past the first such file:
\* its last two reads are the two attempts on that file.
C9_UnreadableFileEmptiesBatch ==
    \A w \in Range(worker_log) :
        LET files == w.files_pathes
            bad == {k \in 1..Len(files) : readable[files[k]] = "none"}
        IN  bad # {} =>
                LET k0 == CHOOSE k \in bad : \A m \in bad : k <= m
                    n == Len(w.reads)
                IN  /\ w.strings = {}
                    /\ \A r \in Range(w.reads) :
                           \E k \in 1..k0 : r.file = files[k]
                    /\ n >= 2
                    /\ w.reads[n - 1] = [file |-> files[k0], guess_encoding |-> FALSE]
                    /\ w.reads[n] = [file |-> files[k0], guess_encoding |-> TRUE]

\* a worker has returned from a batch of at least three files whose first
\* file yields words, whose second file is unreadable and whose third is
\* readable
C9_Witness ==
    \E w \in Range(worker_log) :
        /\ Len(w.files_pathes) >= 3
        /\ readable[w.files_pathes[1]] # "none"
        /\ extract_words(Range(RawStrings("extract_from_python_src", w.files_pathes[1]))) # {}
        /\ readable[w.files_pathes[2]] = "none"
        /\ readable[w.files_pathes[3]] # "none"

\* C10: every call of the chunker gets a non-empty file list and the batch
\* size ceil(n / p) >= 1, never raises, and yields at most p batches, none
\* empty and none longer than the batch size, that hold every file once.
C10_BatchSizeAndBatches ==
    /\ epc # "raised"
    /\ \A c \in Range(chunker_calls) :
           LET n == Len(c.all_files)
           IN  /\ n >= 1
               /\ c.chunk_size >= 1
               /\ c.chunk_size = CeilOf(n, processes_amount)
               /\ Len(c.batches) <= processes_amount
               /\ Len(c.batches) = CeilOf(n, c.chunk_size)
               /\ \A k \in 1..Len(c.batches) :
                      Len(c.batches[k]) >= 1 /\ Len(c.batches[k]) <= c.chunk_size
               /\ \A i \in 1..n :
                      Cardinality({<<k, m>> \in (1..Len(c.batches)) \X (1..c.chunk_size) :
                                       /\ m <= Len(c.batches[k])
                                       /\ c.batches[k][m] = c.all_files[i]}) = 1
               /\ flat(c.batches) = c.all_files

\* the chunker has been called with three files for two processes, and
\* with fewer files than processes
C10_Witness ==
    /\ \E c \in Range(chunker_calls) :
           Len(c.all_files) = 3 /\ processes_amount = 2 /\ Len(c.batches) = 2
    /\ \E c \in Range(chunker_calls) : Len(c.all_files) < processes_amount

====
